---------------------------- MODULE Spec2Model ----------------------------
(***************************************************************************)
(* UAConsole (src/uaconsole.c): the recursive address-space browse         *)
(* browseAndReadNode and the line it prints for every node.                *)
(*                                                                         *)
(* Text is a sequence of one-character strings, so that what printf,       *)
(* snprintf and strncat produce can be compared character by character.    *)
(* A 32-bit status code is a pair of 16-bit halves [hi, lo].               *)
(***************************************************************************)
EXTENDS Integers, Sequences, FiniteSets, TLC

(***************************************************************************)
(* Bounds of the model.                                                    *)
(***************************************************************************)
\* Deepest call of browseAndReadNode the call stack holds: a call at a
\* greater depth runs the stack out.
StackLimit == 3
\* Greatest depth a single visit is rendered at in RenderSpec.
MaxRenderDepth == 62

(***************************************************************************)
(* Text helpers: what the printf conversions write.                        *)
(***************************************************************************)
Take(s, n) == IF n <= 0 THEN << >> ELSE IF Len(s) <= n THEN s ELSE SubSeq(s, 1, n)

IsPrefix(p, s) == Len(p) <= Len(s) /\ SubSeq(s, 1, Len(p)) = p

IsSuffix(p, s) == Len(p) <= Len(s) /\ SubSeq(s, Len(s) - Len(p) + 1, Len(s)) = p

Contains(s, p) == \E k \in 0..(Len(s) - Len(p)) : SubSeq(s, k + 1, k + Len(p)) = p

DigitChar(d) == <<"0", "1", "2", "3", "4", "5", "6", "7", "8", "9",
                  "A", "B", "C", "D", "E", "F">>[d + 1]

\* "%u"
RECURSIVE Dec(_)
Dec(n) == IF n < 10 THEN <<DigitChar(n)>> ELSE Dec(n \div 10) \o <<DigitChar(n % 10)>>

\* "%02u", "%04u": zero-padded to at least w digits
RECURSIVE PadDec(_, _)
PadDec(n, w) == IF Len(Dec(n)) >= w THEN Dec(n)
                ELSE <<"0">> \o PadDec(n, w - 1)

\* four upper-case hex digits of a 16-bit half
Hex4(h) == <<DigitChar(h \div 4096), DigitChar((h \div 256) % 16),
             DigitChar((h \div 16) % 16), DigitChar(h % 16)>>

\* "0x%08X" without the 0x
Hex8(status) == Hex4(status.hi) \o Hex4(status.lo)


(***************************************************************************)
(* Values of the open62541 types the function handles.                     *)
(***************************************************************************)
STATUSCODE_GOOD == [hi |-> 0, lo |-> 0]

\* UA_STATUSCODE_BADUNEXPECTEDERROR 0x80010000, UA_STATUSCODE_BADTIMEOUT
\* 0x800A0000, UA_STATUSCODE_BADNODEIDUNKNOWN 0x80340000
BadStatuses == {[hi |-> 32769, lo |-> 0], [hi |-> 32778, lo |-> 0],
                [hi |-> 32820, lo |-> 0]}

NodeClasses == {"OBJECT", "VARIABLE", "METHOD", "OBJECTTYPE", "VARIABLETYPE",
                "REFERENCETYPE", "DATATYPE", "VIEW", "UNSPECIFIED"}

\* UA_NodeId: namespaceIndex, identifierType, identifier
ObjectsFolder == [ns |-> 0, type |-> "NUMERIC", id |-> 85]

Name(n) == [i \in 1..n |-> "x"]

\* An empty UA_Variant has no type.
EmptyVariant == [type |-> "NULL", scalar |-> TRUE, data |-> 0]

\* A Float is held in units of 1/100000, a DateTime as the UA_DateTimeStruct
\* UA_DateTime_toStruct breaks it into.
Variants ==
    { EmptyVariant,
      [type |-> "Boolean", scalar |-> TRUE, data |-> TRUE],
      [type |-> "Boolean", scalar |-> TRUE, data |-> FALSE],
      [type |-> "Boolean", scalar |-> FALSE, data |-> TRUE],
      [type |-> "UInt16", scalar |-> TRUE, data |-> 65535],
      [type |-> "UInt32", scalar |-> TRUE, data |-> 100000],
      [type |-> "Float", scalar |-> TRUE, data |-> 314159],
      [type |-> "Float", scalar |-> TRUE, data |-> 99],
      [type |-> "DateTime", scalar |-> TRUE,
       data |-> [year |-> 2025, month |-> 1, day |-> 1,
                 hour |-> 0, min |-> 0, sec |-> 0]],
      [type |-> "Int32", scalar |-> TRUE, data |-> 5],
      [type |-> "String", scalar |-> TRUE, data |-> 0] }

\* value.type->typeName
TypeName(type) ==
    CASE type = "Boolean"  -> <<"B", "o", "o", "l", "e", "a", "n">>
      [] type = "UInt16"   -> <<"U", "I", "n", "t", "1", "6">>
      [] type = "UInt32"   -> <<"U", "I", "n", "t", "3", "2">>
      [] type = "Float"    -> <<"F", "l", "o", "a", "t">>
      [] type = "DateTime" -> <<"D", "a", "t", "e", "T", "i", "m", "e">>
      [] type = "Int32"    -> <<"I", "n", "t", "3", "2">>
      [] type = "String"   -> <<"S", "t", "r", "i", "n", "g">>

UA_Variant_isEmpty(v) == v.type = "NULL"

UA_Variant_hasScalarType(v, type) == v.type = type /\ v.scalar

(***************************************************************************)
(* The line browseAndReadNode prints for one node.                         *)
(***************************************************************************)
\* char indent[64] = {0}: 64 bytes, indexed from 0, "" for NUL
IndentBufSize == 64

\* the loop's second bound, i < 60
IndentCap == 60

\* for (int i = 0; i < depth && i < 60; i++) { indent[i] = ' '; indent[i+1] = ' '; }
RECURSIVE IndentLoop(_, _, _)
IndentLoop(buf, i, depth) ==
    IF i < depth /\ i < IndentCap
    THEN IndentLoop([buf EXCEPT ![i] = " ", ![i + 1] = " "], i + 1, depth)
    ELSE buf

IndentBuffer(depth) == IndentLoop([k \in 0..(IndentBufSize - 1) |-> ""], 0, depth)

\* What "%s" prints of a buffer: the bytes before the first NUL. Without a
\* NUL in the buffer the read runs past its end.
RECURSIVE CString(_, _, _)
CString(buf, k, size) ==
    IF k >= size THEN <<"<overrun>">>
    ELSE IF buf[k] = "" THEN << >>
    ELSE <<buf[k]>> \o CString(buf, k + 1, size)

Indent(depth) == CString(IndentBuffer(depth), 0, IndentBufSize)

\* char nodeIdStr[256], char temp[256] for a String identifier
NodeIdStrSize == 256

\* char temp[64] for a Numeric identifier
NumericTempSize == 64

\* strncat(nodeIdStr, temp, sizeof(nodeIdStr) - strlen(nodeIdStr) - 1)
StrNCat(dst, src) == dst \o Take(src, NodeIdStrSize - Len(dst) - 1)

\* snprintf(nodeIdStr, ...), then the identifier by its type; an identifier
\* of another type adds nothing.
FormatNodeId(nodeId) ==
    LET head == Take(<<" ", "[", "n", "s", "=">> \o Dec(nodeId.ns) \o <<";">>,
                     NodeIdStrSize - 1)
    IN  IF nodeId.type = "NUMERIC"
        THEN StrNCat(head, Take(<<"i", "=">> \o Dec(nodeId.id) \o <<"]">>,
                                NumericTempSize - 1))
        ELSE IF nodeId.type = "STRING"
        THEN StrNCat(head, Take(<<"s", "=">> \o nodeId.id \o <<"]">>,
                                NodeIdStrSize - 1))
        ELSE head

\* the switch on nodeClass
ClassLabel(nodeClass) ==
    CASE nodeClass = "OBJECT"        -> <<"O", "b", "j", "e", "c", "t">>
      [] nodeClass = "VARIABLE"      -> <<"V", "a", "r", "i", "a", "b", "l", "e">>
      [] nodeClass = "METHOD"        -> <<"M", "e", "t", "h", "o", "d">>
      [] nodeClass = "OBJECTTYPE"    -> <<"O", "b", "j", "e", "c", "t", "T", "y", "p", "e">>
      [] nodeClass = "VARIABLETYPE"  ->
            <<"V", "a", "r", "i", "a", "b", "l", "e", "T", "y", "p", "e">>
      [] nodeClass = "REFERENCETYPE" ->
            <<"R", "e", "f", "e", "r", "e", "n", "c", "e", "T", "y", "p", "e">>
      [] nodeClass = "DATATYPE"      -> <<"D", "a", "t", "a", "T", "y", "p", "e">>
      [] nodeClass = "VIEW"          -> <<"V", "i", "e", "w">>
      [] OTHER                       -> <<"U", "n", "k", "n", "o", "w", "n">>

\* "%.2f" of a Float held in units of 1/100000 (no value of Variants lies
\* halfway between two hundredths)
FormatFloat2(data) ==
    LET h == (data + 500) \div 1000
    IN  Dec(h \div 100) \o <<".">> \o PadDec(h % 100, 2)

\* "%04u-%02u-%02u %02u:%02u:%02u"
FormatDateTime(dts) ==
    PadDec(dts.year, 4) \o <<"-">> \o PadDec(dts.month, 2) \o <<"-">>
        \o PadDec(dts.day, 2) \o <<" ">> \o PadDec(dts.hour, 2) \o <<":">>
        \o PadDec(dts.min, 2) \o <<":">> \o PadDec(dts.sec, 2)

\* the chain of UA_Variant_hasScalarType tests
DecodeValue(value) ==
    IF UA_Variant_hasScalarType(value, "Boolean")
    THEN (IF value.data THEN <<"t", "r", "u", "e">> ELSE <<"f", "a", "l", "s", "e">>)
    ELSE IF UA_Variant_hasScalarType(value, "UInt16") THEN Dec(value.data)
    ELSE IF UA_Variant_hasScalarType(value, "UInt32") THEN Dec(value.data)
    ELSE IF UA_Variant_hasScalarType(value, "Float") THEN FormatFloat2(value.data)
    ELSE IF UA_Variant_hasScalarType(value, "DateTime") THEN FormatDateTime(value.data)
    ELSE <<"[">> \o TypeName(value.type) \o <<"]">>

ReadErrorText(readStatus) ==
    <<" ", "[", "R", "e", "a", "d", " ", "e", "r", "r", "o", "r", ":", " ", "0", "x">>
        \o Hex8(readStatus) \o <<"]">>

\* Whether the value is decoded: readStatus == UA_STATUSCODE_GOOD &&
\* !UA_Variant_isEmpty(&value)
ValueIsShown(readStatus, value) ==
    readStatus = STATUSCODE_GOOD /\ ~UA_Variant_isEmpty(value)

\* Mutant of ValueSuffix: a failed value read leaves the line without a word.
ValueSuffixSilent(readStatus, value) ==
    IF ValueIsShown(readStatus, value)
    THEN <<" ", "=", " ">> \o DecodeValue(value)
    ELSE << >>

\* what follows " (Variable)" on the line
ValueSuffix(readStatus, value) ==
    IF ValueIsShown(readStatus, value)
    THEN <<" ", "=", " ">> \o DecodeValue(value)
    ELSE ReadErrorText(readStatus)

\* The whole line, without its "\n". read is the outcome of
\* UA_Client_readValueAttribute, used for a Variable only.
RenderLine(nodeId, depth, nodeClass, browseName, read) ==
    Indent(depth) \o browseName \o <<" ">> \o FormatNodeId(nodeId)
        \o <<" ", "(">> \o ClassLabel(nodeClass) \o <<")">>
        \o (IF nodeClass = "VARIABLE" THEN ValueSuffix(read.status, read.value)
            ELSE << >>)

(***************************************************************************)
(* The server the session talks to.  Its address space does not change     *)
(* during a browse: the first answer about a node is drawn from the sets   *)
(* below and recorded, and every later call about that node gets the same  *)
(* answer.                                                                 *)
(***************************************************************************)
PumpId == [ns |-> 1, type |-> "STRING", id |-> <<"P", "1">>]

GuidId == [ns |-> 2, type |-> "GUID", id |-> 7]

Nodes == {ObjectsFolder, PumpId, GuidId}

BrowseNameOf(nodeId) ==
    IF nodeId = ObjectsFolder THEN <<"O", "b", "j", "e", "c", "t", "s">>
    ELSE IF nodeId = PumpId THEN <<"P", "u", "m", "p">>
    ELSE <<"T", "a", "g">>

BadNodeIdUnknown == [hi |-> 32820, lo |-> 0]

BadUnexpectedError == [hi |-> 32769, lo |-> 0]

\* Outcomes of UA_Client_readNodeClassAttribute (rc, nodeClass) and
\* UA_Client_readBrowseNameAttribute (rn).
AttrAnswers ==
    {[rc |-> BadNodeIdUnknown, nodeClass |-> "UNSPECIFIED", rn |-> STATUSCODE_GOOD],
     [rc |-> STATUSCODE_GOOD, nodeClass |-> "OBJECT", rn |-> BadNodeIdUnknown]}
    \cup {[rc |-> STATUSCODE_GOOD, nodeClass |-> c, rn |-> STATUSCODE_GOOD] :
            c \in {"OBJECT", "VIEW", "VARIABLE", "METHOD"}}

\* Outcomes of UA_Client_readValueAttribute.
ValueAnswers ==
    {[status |-> STATUSCODE_GOOD,
      value |-> [type |-> "Float", scalar |-> TRUE, data |-> 314159]],
     [status |-> STATUSCODE_GOOD, value |-> EmptyVariant],
     [status |-> BadUnexpectedError, value |-> EmptyVariant]}

\* A UA_ReferenceDescription: nodeId.nodeId and isForward.
Ref(target, isForward) == [target |-> target, isForward |-> isForward]

Refs == {Ref(PumpId, TRUE), Ref(GuidId, TRUE), Ref(ObjectsFolder, FALSE)}

\* Outcomes of UA_Client_Service_browse: results[0].references.
RefLists == {<< >>} \cup {<<r>> : r \in Refs} \cup {<<r, q>> : r \in Refs, q \in Refs}

\* A String or ByteString identifier owns heap storage (identifier.string.data).
HasStorage(nodeId) == nodeId.type \in {"STRING", "BYTESTRING"}

VARIABLES
    pc,        \* where main is: "start", "browsing", "returned", "done",
               \* or dead: "overflow" (stack run out), "aborted"
    verbose,   \* main's verbose flag
    stack,     \* the calls of browseAndReadNode in progress, innermost last
    out,       \* the lines written to stdout, in order
    calls,     \* the calls made to the session, in order
    heap,      \* per storage cell, how many times it was released
    srvAttr,   \* the server's recorded answers: attributes,
    srvValue,  \* values,
    srvRefs,   \* references
    rendered   \* RenderSpec: the visit rendered, with its line

vars == <<pc, verbose, stack, out, calls, heap, srvAttr, srvValue, srvRefs, rendered>>

NoRead == [status |-> STATUSCODE_GOOD, value |-> EmptyVariant]

\* A call of browseAndReadNode(client, nodeId, depth, verbose): its
\* parameters and locals, and idCell, the storage its by-value copy of
\* nodeId points into (0: none).
Frame(nodeId, depth, idCell) ==
    [node |-> nodeId, depth |-> depth, idCell |-> idCell, at |-> "read",
     nodeClass |-> "UNSPECIFIED", refs |-> << >>, cells |-> << >>, i |-> 0]

Top == stack[Len(stack)]

SetTop(f) == [stack EXCEPT ![Len(stack)] = f]

\* The place of the innermost call in the tree of calls: the reference
\* index each enclosing call is at.
PathOf(stk) == [k \in 1..(Len(stk) - 1) |-> stk[k].i + 1]

\* return: the caller goes on with i++ of its loop.
Returned(stk) ==
    LET rest == SubSeq(stk, 1, Len(stk) - 1)
    IN  IF rest = << >> THEN rest
        ELSE [rest EXCEPT ![Len(rest)].i = @ + 1]

PcAfterReturn == IF Len(stack) = 1 THEN "returned" ELSE pc

Answers(recorded, nodeId, all) ==
    IF nodeId \in DOMAIN recorded THEN {recorded[nodeId]} ELSE all

Record(recorded, nodeId, answer) ==
    [n \in DOMAIN recorded \cup {nodeId} |->
        IF n = nodeId THEN answer ELSE recorded[n]]

Call(op, nodeId) == [op |-> op, node |-> nodeId]

NodeLine(f, read) ==
    [kind |-> "node", node |-> f.node, depth |-> f.depth, path |-> PathOf(stack),
     text |-> RenderLine(f.node, f.depth, f.nodeClass, BrowseNameOf(f.node), read)]

\* "  Found %zu references to browse"
FoundLine(f, n) ==
    [kind |-> "found", node |-> f.node, depth |-> f.depth, path |-> PathOf(stack),
     text |-> <<" ", " ", "F", "o", "u", "n", "d", " ">> \o Dec(n)
              \o <<" ", "r", "e", "f", "e", "r", "e", "n", "c", "e", "s", " ",
                   "t", "o", " ", "b", "r", "o", "w", "s", "e">>]

Init ==
    /\ pc = "start"
    /\ verbose \in BOOLEAN
    /\ stack = << >>
    /\ out = << >>
    /\ calls = << >>
    /\ heap = << >>
    /\ srvAttr = [n \in {} |-> n]
    /\ srvValue = [n \in {} |-> n]
    /\ srvRefs = [n \in {} |-> n]
    /\ rendered = << >>

\* main: browseAndReadNode(client, objectsFolder, 0, verbose)
MainCall ==
    /\ pc = "start"
    /\ pc' = "browsing"
    /\ stack' = <<Frame(ObjectsFolder, 0, 0)>>
    /\ UNCHANGED <<rendered, verbose, out, calls, heap, srvAttr, srvValue, srvRefs>>

\* Mutant of AttrsReadOk: the outcome of the browse name read is ignored.
AttrsReadOkClassOnly(rc, rn) == rc = STATUSCODE_GOOD

\* if (readNodeClass != GOOD || readBrowseName != GOOD) return;
AttrsReadOk(rc, rn) == rc = STATUSCODE_GOOD /\ rn = STATUSCODE_GOOD

ReadAttributes ==
    /\ pc = "browsing"
    /\ Top.at = "read"
    /\ \E a \in Answers(srvAttr, Top.node, AttrAnswers) :
        /\ srvAttr' = Record(srvAttr, Top.node, a)
        /\ calls' = calls \o <<Call("readNodeClass", Top.node)>>
                     \o (IF a.rc = STATUSCODE_GOOD
                         THEN <<Call("readBrowseName", Top.node)>> ELSE << >>)
        /\ IF AttrsReadOk(a.rc, a.rn)
           THEN /\ stack' = SetTop([Top EXCEPT !.at = "print", !.nodeClass = a.nodeClass])
                /\ pc' = pc
           ELSE /\ stack' = Returned(stack)
                /\ pc' = PcAfterReturn
    /\ UNCHANGED <<rendered, verbose, out, heap, srvValue, srvRefs>>

\* if (nodeClass == UA_NODECLASS_OBJECT || nodeClass == UA_NODECLASS_VIEW)
IsBrowsed(nodeClass) == nodeClass \in {"OBJECT", "VIEW"}

\* The indentation, the name, the NodeId, the class and, for a Variable,
\* the value read: one line.
PrintNode ==
    /\ pc = "browsing"
    /\ Top.at = "print"
    /\ \E read \in (IF Top.nodeClass = "VARIABLE"
                    THEN Answers(srvValue, Top.node, ValueAnswers) ELSE {NoRead}) :
        /\ srvValue' = IF Top.nodeClass = "VARIABLE"
                       THEN Record(srvValue, Top.node, read) ELSE srvValue
        /\ calls' = IF Top.nodeClass = "VARIABLE"
                    THEN Append(calls, Call("readValue", Top.node)) ELSE calls
        /\ out' = Append(out, NodeLine(Top, read))
    /\ IF IsBrowsed(Top.nodeClass)
       THEN /\ stack' = SetTop([Top EXCEPT !.at = "browse"])
            /\ pc' = pc
       ELSE /\ stack' = Returned(stack)
            /\ pc' = PcAfterReturn
    /\ UNCHANGED <<rendered, verbose, heap, srvAttr, srvRefs>>

\* The storage cells of a browse response's references: a new cell for
\* every NodeId that owns storage, 0 for the others.
NewCells(refs, base) ==
    [k \in 1..Len(refs) |->
        IF HasStorage(refs[k].target)
        THEN base + Cardinality({j \in 1..k : HasStorage(refs[j].target)})
        ELSE 0]

\* bReq.nodesToBrowse[0].nodeId = nodeId; bResp = UA_Client_Service_browse();
\* the "Found" line of verbose mode at depth 0.
Browse ==
    /\ pc = "browsing"
    /\ Top.at = "browse"
    /\ \E refs \in Answers(srvRefs, Top.node, RefLists) :
        LET cells == NewCells(refs, Len(heap))
        IN  /\ srvRefs' = Record(srvRefs, Top.node, refs)
            /\ heap' = heap \o [k \in 1..Cardinality({j \in 1..Len(refs) : cells[j] # 0})
                                  |-> 0]
            /\ stack' = SetTop([Top EXCEPT !.at = "loop", !.refs = refs,
                                           !.cells = cells, !.i = 0])
            /\ out' = IF Len(refs) > 0 /\ verbose /\ Top.depth = 0
                      THEN Append(out, FoundLine(Top, Len(refs))) ELSE out
    /\ calls' = Append(calls, Call("browse", Top.node))
    /\ UNCHANGED <<rendered, pc, verbose, srvAttr, srvValue>>

\* Mutant of ShouldDescend: every reference is descended into.
DescendAlways(ref) == TRUE

\* if (bResp.results[0].references[i].isForward)
ShouldDescend(ref) == ref.isForward

\* Mutant of RefAt: the references are taken from the last to the first.
RefAtReversed(f) == f.refs[Len(f.refs) - f.i]

\* references[i], i counted from 0
RefAt(f) == f.refs[f.i + 1]

\* One turn of the for loop: the recursive call for a forward reference,
\* i++ for another, the end of the loop after the last.
LoopStep ==
    /\ pc = "browsing"
    /\ Top.at = "loop"
    /\ IF Top.i < Len(Top.refs)
       THEN IF ShouldDescend(RefAt(Top))
            THEN IF Top.depth + 1 > StackLimit
                 THEN pc' = "overflow" /\ stack' = stack
                 ELSE /\ stack' = Append(stack, Frame(RefAt(Top).target, Top.depth + 1,
                                                     Top.cells[Top.i + 1]))
                      /\ pc' = pc
            ELSE stack' = SetTop([Top EXCEPT !.i = @ + 1]) /\ pc' = pc
       ELSE stack' = SetTop([Top EXCEPT !.at = "clearResponse"]) /\ pc' = pc
    /\ UNCHANGED <<rendered, verbose, out, calls, heap, srvAttr, srvValue, srvRefs>>

\* free() of each cell of cs that is one (not 0)
Release(h, cs) ==
    [c \in DOMAIN h |-> h[c] + Cardinality({k \in DOMAIN cs : cs[k] = c})]

\* A cell released twice: the behaviour of free() is undefined. The
\* allocator may abort the process then or at any later release, or the
\* program may run on; both outcomes are kept.
DoubleFree(h) == \E c \in DOMAIN h : h[c] > 1

\* UA_BrowseResponse_clear(&bResp): releases the NodeIds of its references.
ClearResponse ==
    /\ pc = "browsing"
    /\ Top.at = "clearResponse"
    /\ heap' = Release(heap, Top.cells)
    /\ \/ stack' = SetTop([Top EXCEPT !.at = "clearRequest"]) /\ pc' = pc
       \/ DoubleFree(heap') /\ pc' = "aborted" /\ stack' = stack
    /\ UNCHANGED <<rendered, verbose, out, calls, srvAttr, srvValue, srvRefs>>

\* UA_BrowseRequest_clear(&bReq): releases nodesToBrowse[0].nodeId, the
\* shallow copy of the parameter; then the function returns.
ClearRequest ==
    /\ pc = "browsing"
    /\ Top.at = "clearRequest"
    /\ heap' = Release(heap, <<Top.idCell>>)
    /\ \/ stack' = Returned(stack) /\ pc' = PcAfterReturn
       \/ DoubleFree(heap') /\ pc' = "aborted" /\ stack' = stack
    /\ UNCHANGED <<rendered, verbose, out, calls, srvAttr, srvValue, srvRefs>>

\* main: UA_Client_disconnect(client); UA_Client_delete(client);
Disconnect ==
    /\ pc = "returned"
    /\ pc' = "done"
    /\ UNCHANGED <<rendered, verbose, stack, out, calls, heap, srvAttr, srvValue, srvRefs>>

Next ==
    \/ MainCall
    \/ ReadAttributes
    \/ PrintNode
    \/ Browse
    \/ LoopStep
    \/ ClearResponse
    \/ ClearRequest
    \/ Disconnect

Spec == Init /\ [][Next]_vars

(***************************************************************************)
(* RenderSpec: the line of one visit, for a node, a depth, a class and an  *)
(* outcome of the value read drawn from the sets below.                    *)
(***************************************************************************)
RenderNodeIds ==
    {ObjectsFolder, PumpId, GuidId,
     [ns |-> 65535, type |-> "NUMERIC", id |-> 2147483647],
     [ns |-> 3, type |-> "BYTESTRING", id |-> <<"b">>],
     [ns |-> 4, type |-> "STRING", id |-> Name(300)]}

RenderReads ==
    {[status |-> STATUSCODE_GOOD, value |-> v] : v \in Variants}
    \cup {[status |-> s, value |-> EmptyVariant] : s \in BadStatuses}

RenderInit ==
    /\ pc = "render"
    /\ verbose = FALSE
    /\ stack = << >>
    /\ out = << >>
    /\ calls = << >>
    /\ heap = << >>
    /\ srvAttr = [n \in {} |-> n]
    /\ srvValue = [n \in {} |-> n]
    /\ srvRefs = [n \in {} |-> n]
    /\ rendered = << >>

\* One visit whose attribute reads succeeded: the indentation buffer, the
\* NodeId text and the line.
RenderVisit ==
    /\ pc = "render"
    /\ rendered = << >>
    /\ \E nodeId \in RenderNodeIds, depth \in 0..MaxRenderDepth, nodeClass \in NodeClasses :
        \E read \in (IF nodeClass = "VARIABLE" THEN RenderReads ELSE {NoRead}) :
            rendered' = <<[node |-> nodeId, depth |-> depth, nodeClass |-> nodeClass,
                           read |-> read,
                           indent |-> IndentBuffer(depth),
                           nodeIdStr |-> FormatNodeId(nodeId),
                           text |-> RenderLine(nodeId, depth, nodeClass,
                                               BrowseNameOf(nodeId), read)]>>
    /\ UNCHANGED <<pc, verbose, stack, out, calls, heap, srvAttr, srvValue, srvRefs>>

RenderNext == RenderVisit

RenderSpec == RenderInit /\ [][RenderNext]_vars

(***************************************************************************)
(* What the claims are stated with.                                        *)
(***************************************************************************)
NodeLines == SelectSeq(out, LAMBDA l : l.kind = "node")

CallsOf(op, nodeId) == Cardinality({k \in 1..Len(calls) : calls[k] = Call(op, nodeId)})

LinesOf(nodeId) == Cardinality({k \in 1..Len(NodeLines) : NodeLines[k].node = nodeId})

Known(nodeId) == nodeId \in DOMAIN srvAttr

\* Both attribute reads of the node succeed.
AttrsGood(nodeId) ==
    /\ Known(nodeId)
    /\ srvAttr[nodeId].rc = STATUSCODE_GOOD
    /\ srvAttr[nodeId].rn = STATUSCODE_GOOD

AttrsFail(nodeId) == Known(nodeId) /\ ~AttrsGood(nodeId)

ClassOf(nodeId) == srvAttr[nodeId].nodeClass

\* The line expected of a node at a depth, from the server's answers.
ExpectedText(nodeId, depth) ==
    RenderLine(nodeId, depth, ClassOf(nodeId), BrowseNameOf(nodeId),
               IF ClassOf(nodeId) = "VARIABLE" /\ nodeId \in DOMAIN srvValue
               THEN srvValue[nodeId] ELSE NoRead)

\* The depth-first pre-order of the server's address space from a node: the
\* node, then the subtree of each forward reference of an Object or View in
\* the order of the browse answer; a node whose attributes cannot be read,
\* or one of skip, contributes nothing.
RECURSIVE PreOrder(_, _, _, _)
RECURSIVE PreOrderRefs(_, _, _, _, _)
PreOrder(nodeId, depth, path, skip) ==
    IF nodeId \in skip \/ ~AttrsGood(nodeId) THEN << >>
    ELSE <<[node |-> nodeId, depth |-> depth, path |-> path]>>
         \o (IF ClassOf(nodeId) \in {"OBJECT", "VIEW"} /\ nodeId \in DOMAIN srvRefs
             THEN PreOrderRefs(nodeId, depth, path, skip, 1) ELSE << >>)

PreOrderRefs(nodeId, depth, path, skip, k) ==
    IF k > Len(srvRefs[nodeId]) THEN << >>
    ELSE (IF srvRefs[nodeId][k].isForward
          THEN PreOrder(srvRefs[nodeId][k].target, depth + 1, Append(path, k), skip)
          ELSE << >>)
         \o PreOrderRefs(nodeId, depth, path, skip, k + 1)

Places(lines) == [k \in 1..Len(lines) |->
                    [node |-> lines[k].node, depth |-> lines[k].depth,
                     path |-> lines[k].path]]

Texts(lines) == [k \in 1..Len(lines) |->
                    [node |-> lines[k].node, depth |-> lines[k].depth,
                     text |-> lines[k].text]]

ExpectedTexts(places) == [k \in 1..Len(places) |->
                    [node |-> places[k].node, depth |-> places[k].depth,
                     text |-> ExpectedText(places[k].node, places[k].depth)]]

\* p comes before q in pre-order: p is a proper prefix of q, or p turns to
\* an earlier reference where they part.
PathBefore(p, q) ==
    /\ p # q
    /\ \/ IsPrefix(p, q)
       \/ \E k \in 1..Len(p) : /\ k <= Len(q)
                               /\ SubSeq(p, 1, k - 1) = SubSeq(q, 1, k - 1)
                               /\ p[k] < q[k]

\* The line of the node at a place of the tree of calls, if there is one.
LineAt(path) == {k \in 1..Len(NodeLines) : NodeLines[k].path = path}

(***************************************************************************)
(* The claims.                                                             *)
(***************************************************************************)
\* The code has no maxDepth; the claim is stated for the greatest value
\* below the depth the model's call stack holds. Any smaller value is
\* exceeded the same way.
maxDepth == StackLimit - 1

\* C1: no call of browseAndReadNode executes with a depth greater than
\* maxDepth.
C1_DepthNeverExceedsMaxDepth ==
    \A k \in 1..Len(stack) : stack[k].depth <= maxDepth

\* C2: the traversal terminates: the recursion never runs the call stack
\* out, so that control returns to main, which disconnects.
C2_TraversalReturns == pc # "overflow"

\* C3: fault isolation. A node whose node class or browse name cannot be
\* read has no line, no value read, no browse and no call made for one of
\* its references; and once the browse is over the node lines, those of its
\* ancestors and later siblings included, are the lines of the address
\* space without the references to that node.
C3_FaultIsolation ==
    /\ \A k \in 1..Len(NodeLines) : AttrsGood(NodeLines[k].node)
    /\ \A k \in 1..Len(calls) :
          calls[k].op \in {"readValue", "browse"} => AttrsGood(calls[k].node)
    /\ \A k \in 1..Len(stack) :
          AttrsFail(stack[k].node) => k = Len(stack) /\ stack[k].at = "read"
    /\ pc = "done" =>
          \A x \in Nodes : AttrsFail(x) =>
              Texts(NodeLines) =
                  ExpectedTexts(PreOrder(ObjectsFolder, 0, << >>, {x}))

\* C3 witness: the browse is over, the first forward reference of a printed
\* node led to a node whose attributes cannot be read, and the sibling after
\* it has its line.
C3_Witness ==
    /\ pc = "done"
    /\ \E k \in 1..Len(NodeLines) :
          LET n == NodeLines[k].node
          IN  /\ n \in DOMAIN srvRefs
              /\ Len(srvRefs[n]) = 2
              /\ srvRefs[n][1].isForward
              /\ AttrsFail(srvRefs[n][1].target)
              /\ LineAt(Append(NodeLines[k].path, 2)) # {}

\* C4: forward only. Every call in progress below the first was made for
\* the reference its caller's loop is at, that reference is a forward one of
\* the browse answer of an Object or View, and its depth is the caller's
\* plus one; only Object and View nodes are browsed.
C4_ForwardOnly ==
    /\ stack # << >> => stack[1].depth = 0 /\ stack[1].node = ObjectsFolder
    /\ \A k \in 2..Len(stack) :
          LET p == stack[k - 1]
              f == stack[k]
          IN  /\ p.at = "loop"
              /\ p.nodeClass \in {"OBJECT", "VIEW"}
              /\ p.refs = srvRefs[p.node]
              /\ p.i < Len(p.refs)
              /\ p.refs[p.i + 1].isForward = TRUE
              /\ p.refs[p.i + 1].target = f.node
              /\ f.depth = p.depth + 1
    /\ \A k \in 1..Len(calls) :
          calls[k].op = "browse" =>
              AttrsGood(calls[k].node) /\ ClassOf(calls[k].node) \in {"OBJECT", "VIEW"}
    /\ \A k \in 1..Len(NodeLines) :
          LET l == NodeLines[k]
          IN  l.path # << >> =>
                \E j \in LineAt(SubSeq(l.path, 1, Len(l.path) - 1)) :
                    LET r == srvRefs[NodeLines[j].node][l.path[Len(l.path)]]
                    IN  r.isForward /\ r.target = l.node
                        /\ l.depth = NodeLines[j].depth + 1

\* C4 witness: a call in progress for a forward reference that follows a
\* backward one in the same browse answer.
C4_Witness ==
    \E k \in 2..Len(stack) :
        /\ stack[k - 1].i = 1
        /\ ~stack[k - 1].refs[1].isForward
        /\ stack[k].at = "print"

\* C5: pre-order. The node lines are written in the pre-order of the tree
\* of calls, each at the depth of its place; a node has as many lines as
\* visits when its attributes can be read and none otherwise; and once the
\* browse is over the node lines are exactly the pre-order of the address
\* space, the references taken in the order of the browse answers.
C5_PreOrder ==
    /\ \A j \in 1..Len(NodeLines) :
          /\ NodeLines[j].depth = Len(NodeLines[j].path)
          /\ \A k \in 1..(j - 1) : PathBefore(NodeLines[k].path, NodeLines[j].path)
    /\ pc = "done" =>
          /\ Places(NodeLines) = PreOrder(ObjectsFolder, 0, << >>, {})
          /\ \A n \in Nodes :
                LinesOf(n) = IF AttrsGood(n) THEN CallsOf("readNodeClass", n) ELSE 0

\* C5 witness: the browse is over with the line of a second child written
\* after the line of a grandchild under the first child.
C5_Witness ==
    /\ pc = "done"
    /\ \E a \in LineAt(<<1, 1>>), b \in LineAt(<<2>>) :
          a < b /\ NodeLines[a].node # NodeLines[b].node

\* The eight hex digits of the status codes the value read fails with.
StatusHex(status) ==
    CASE status = [hi |-> 32769, lo |-> 0] -> <<"8", "0", "0", "1", "0", "0", "0", "0">>
      [] status = [hi |-> 32778, lo |-> 0] -> <<"8", "0", "0", "A", "0", "0", "0", "0">>
      [] status = [hi |-> 32820, lo |-> 0] -> <<"8", "0", "3", "4", "0", "0", "0", "0">>

ValueReadFailed(nodeId) ==
    /\ AttrsGood(nodeId)
    /\ ClassOf(nodeId) = "VARIABLE"
    /\ nodeId \in DOMAIN srvValue
    /\ srvValue[nodeId].status # STATUSCODE_GOOD

\* C6: a failed value read is not fatal. Every value read has its line; the
\* line of a Variable whose value read failed with status S ends with
\* " (Variable) [Read error: 0x<S in 8 hex digits>]" and shows no decoded
\* value; and once the browse is over every later forward sibling whose
\* attributes can be read has its line too.
C6_ValueReadFailureNotFatal ==
    /\ \A n \in Nodes : CallsOf("readValue", n) > 0 =>
          CallsOf("readValue", n) = LinesOf(n)
    /\ \A k \in 1..Len(NodeLines) :
          LET l == NodeLines[k]
          IN  ValueReadFailed(l.node) =>
                /\ IsSuffix(<<" ", "(", "V", "a", "r", "i", "a", "b", "l", "e", ")",
                              " ", "[", "R", "e", "a", "d", " ", "e", "r", "r", "o",
                              "r", ":", " ", "0", "x">>
                            \o StatusHex(srvValue[l.node].status) \o <<"]">>, l.text)
                /\ ~Contains(l.text, <<" ", "=", " ">>)
                /\ (pc = "done" /\ l.path # << >>) =>
                      \A p \in LineAt(SubSeq(l.path, 1, Len(l.path) - 1)) :
                          LET refs == srvRefs[NodeLines[p].node]
                          IN  \A j \in (l.path[Len(l.path)] + 1)..Len(refs) :
                                (refs[j].isForward /\ AttrsGood(refs[j].target)) =>
                                    \E q \in LineAt(Append(NodeLines[p].path, j)) : q > k

\* C6 witness: the browse is over, the first child is a Variable whose
\* value read failed, and the second child has its line.
C6_Witness ==
    /\ pc = "done"
    /\ \E k \in LineAt(<<1>>) : ValueReadFailed(NodeLines[k].node)
    /\ LineAt(<<2>>) # {}

ReadErrorWords == <<"R", "e", "a", "d", " ", "e", "r", "r", "o", "r">>

\* C7: the line of a Variable whose value read returned success carries
\* " = " and the decoded value and never the read-error text; the line of
\* any other node carries neither.
C7_ReadErrorOnlyOnFailure ==
    \A k \in 1..Len(rendered) :
        LET r == rendered[k]
            label == <<" ", "(">> \o ClassLabel(r.nodeClass) \o <<")">>
        IN  /\ (r.nodeClass = "VARIABLE" /\ r.read.status = STATUSCODE_GOOD) =>
                  /\ Contains(r.text, label \o <<" ", "=", " ">>)
                  /\ ~Contains(r.text, ReadErrorWords)
            /\ r.nodeClass # "VARIABLE" =>
                  /\ IsSuffix(label, r.text)
                  /\ ~Contains(r.text, ReadErrorWords)

RECURSIVE LeadingSpaces(_)
LeadingSpaces(text) ==
    IF text = << >> \/ Head(text) # " " THEN 0 ELSE 1 + LeadingSpaces(Tail(text))

\* C8: a line at depth d below the cap of the indentation loop starts with
\* exactly 2*d spaces, and at any depth the indentation buffer keeps a NUL
\* inside its 64 bytes.
C8_TwoSpacesPerLevel ==
    \A k \in 1..Len(rendered) :
        LET r == rendered[k]
        IN  /\ \E j \in 0..(IndentBufSize - 1) : r.indent[j] = ""
            /\ r.depth < IndentCap => LeadingSpaces(r.text) = 2 * r.depth

\* The kind tag the claim names for an identifier type; "g" and "b" stand
\* for the generic tag of the other types.
KindTag(type) ==
    CASE type = "NUMERIC" -> "i"
      [] type = "STRING" -> "s"
      [] type = "GUID" -> "g"
      [] OTHER -> "b"

\* C9: the text of every NodeId, of whatever identifier type, opens with
\* "[ns=<namespaceIndex>;", goes on with a kind tag and "=", and ends with
\* "]" (the blank the code puts before "[" is not counted).
C9_NodeIdWellFormed ==
    \A k \in 1..Len(rendered) :
        LET r == rendered[k]
            t == Tail(r.nodeIdStr)
            open == <<"[", "n", "s", "=">> \o Dec(r.node.ns) \o <<";">>
        IN  /\ Head(r.nodeIdStr) = " "
            /\ IsPrefix(open, t)
            /\ \E tag \in {"i", "s", "g", "b"} :
                  /\ r.node.type \in {"NUMERIC", "STRING"} => tag = KindTag(r.node.type)
                  /\ IsPrefix(open \o <<tag, "=">>, t)
            /\ IsSuffix(<<"]">>, t)

\* The calls in progress whose browse response holds a cell and is not yet
\* cleared.
Owners(cell) ==
    {k \in 1..Len(stack) :
        /\ stack[k].at \in {"loop", "clearResponse"}
        /\ \E j \in 1..Len(stack[k].cells) : stack[k].cells[j] = cell}

\* C10: the storage of a NodeId of a browse response is released once, by
\* clearing that response: no cell is released twice, and none is released
\* while the response that returned it is still to be cleared.
C10_ReleasedOnceByOwner ==
    \A c \in DOMAIN heap :
        /\ heap[c] <= 1
        /\ heap[c] = 1 => Owners(c) = {}

=============================================================================
